---- MODULE Spec2Model ----
(***************************************************************************)
(* Model of the event engine of packages/jq/src/shared/event.ts: the       *)
(* identity registry, the handler store, the namespace parser and matcher, *)
(* add, remove and the dispatch proxy; and of the open and close          *)
(* transitions of packages/components/src/navigation-drawer/index.ts.      *)
(*                                                                         *)
(* Strings are sequences of UTF-16 code units, so that split, sort, join   *)
(* and the regular expression of matcherFor are computed as the code       *)
(* computes them.                                                          *)
(***************************************************************************)
EXTENDS Integers, Sequences, FiniteSets, TLC

VARIABLES
  elementIdMap,  \* the WeakMap from targets and callbacks to their id
  elementId,     \* the id counter
  handlersMap,   \* id of a target -> its handler list (with holes)
  listeners,     \* target -> the native listeners attached to it
  proxyCount,    \* number of proxy closures created so far
  lastOp,        \* the last add or remove call and its arguments
  ev,            \* the event being dispatched
  queue,         \* listeners the dispatch has still to invoke
  pending,       \* callback invocations the running proxy has still to make
  calls,         \* callback invocations made so far by the dispatch
  returned,      \* result and effect of the last callback invocation
  parseInput,    \* the token last passed to parse
  parseOutput,   \* what parse returned for it
  open,          \* navigation drawer: the open property
  handset,       \* navigation drawer: container narrower than the breakpoint
  modal,         \* navigation drawer: the modal property
  contained,     \* navigation drawer: the contained property
  hasUpdated,    \* navigation drawer: the first update has completed
  changedOpen,   \* navigation drawer: old value of open in the pending update
  display,       \* navigation drawer: this.style.display
  modalActive,   \* navigation drawer: the modal helper is activated
  locked,        \* navigation drawer: targets holding a screen lock of this drawer
  runs,          \* navigation drawer: onOpenChange calls suspended at an await
  emitted        \* navigation drawer: the events emitted so far

engineVars == <<elementIdMap, elementId, handlersMap, listeners, proxyCount, lastOp>>
dispatchVars == <<ev, queue, pending, calls, returned>>
parseVars == <<parseInput, parseOutput>>
\* What the event engine's add, remove and dispatch leave alone.
drawerVars == <<open, handset, modal, contained, hasUpdated, changedOpen,
                display, modalActive, locked, runs, emitted>>
restVars == <<parseVars, drawerVars>>
vars == <<elementIdMap, elementId, handlersMap, listeners, proxyCount, lastOp,
          ev, queue, pending, calls, returned, parseInput, parseOutput,
          open, handset, modal, contained, hasUpdated, changedOpen,
          display, modalActive, locked, runs, emitted>>

----------------------------------------------------------------------------
(* Strings *)

SP == 32
DOT == 46

\* The code units of the letters used in type names and namespace tags.
CodeUnit == ("a" :> 97) @@ ("b" :> 98) @@ ("c" :> 99) @@ ("d" :> 100) @@ ("f" :> 102)
            @@ ("k" :> 107) @@ ("x" :> 120)
Units(letters) == [i \in 1..Len(letters) |-> CodeUnit[letters[i]]]

EmptyStr == <<>>

\* Bound: at most this many slots in all handler lists together.
MaxHandlers == 3

\* "click" and "focus" are written with one code unit each ("k", "f"):
\* the engine never looks inside a type, it only compares types.
click == Units(<<"k">>)
focus == Units(<<"f">>)

\* Namespace tags.
TagA == Units(<<"a">>)
TagB == Units(<<"b">>)
TagC == Units(<<"c">>)
TagD == Units(<<"d">>)
TagX == Units(<<"x">>)
TagXB == Units(<<"x", "b">>)

RECURSIVE Split(_, _)
\* String.prototype.split(sep) for a one-unit separator: always at least one part.
Split(s, sep) ==
  IF \E i \in 1..Len(s) : s[i] = sep
  THEN LET i == CHOOSE k \in 1..Len(s) : s[k] = sep /\ \A j \in 1..(k-1) : s[j] # sep
       IN <<SubSeq(s, 1, i-1)>> \o Split(SubSeq(s, i+1, Len(s)), sep)
  ELSE <<s>>

\* s < t in the order of Array.prototype.sort() without comparator:
\* code unit by code unit, a proper prefix first.
StrLess(s, t) ==
  \/ /\ Len(s) < Len(t)
     /\ \A i \in 1..Len(s) : s[i] = t[i]
  \/ \E i \in 1..Len(s) :
       /\ i <= Len(t)
       /\ \A j \in 1..(i-1) : s[j] = t[j]
       /\ s[i] < t[i]

RECURSIVE Insert(_, _)
Insert(x, sorted) ==
  IF sorted = <<>> THEN <<x>>
  ELSE IF StrLess(x, Head(sorted)) THEN <<x>> \o sorted
  ELSE <<Head(sorted)>> \o Insert(x, Tail(sorted))

\* The segments left in the order they were written.
SortStringsKeepsOrder(parts) == parts

RECURSIVE SortStrings(_)
\* Array.prototype.sort(): a stable sort, equal strings keep their order.
SortStrings(parts) ==
  IF parts = <<>> THEN <<>>
  ELSE Insert(parts[Len(parts)], SortStrings(SubSeq(parts, 1, Len(parts)-1)))

RECURSIVE Join(_, _)
Join(parts, sep) ==
  IF parts = <<>> THEN <<>>
  ELSE IF Len(parts) = 1 THEN parts[1]
  ELSE parts[1] \o <<sep>> \o Join(Tail(parts), sep)

\* parse(type): { type: parts[0], ns: parts.slice(1).sort().join(' ') }
parse(token) ==
  LET parts == Split(token, DOT)
  IN [type |-> parts[1], ns |-> Join(SortStrings(Tail(parts)), SP)]

\* this.style.display before the drawer assigns it.
InlineUnset == ""

\* Before the first call of parse.
NoToken == <<0>>
NoParse == [type |-> NoToken, ns |-> NoToken]

----------------------------------------------------------------------------
(* Namespace matcher *)

Lit(c) == [k |-> "lit", c |-> c]
BosOrSp == [k |-> "bosOrSp", c |-> 0]
DotStar == [k |-> "dotStar", c |-> 0]
OptSp == [k |-> "optSp", c |-> 0]
SpOrEos == [k |-> "spOrEos", c |-> 0]

Lits(s) == [i \in 1..Len(s) |-> Lit(s[i])]

\* ns.replace(' ', ' .* ?'): a string pattern replaces the FIRST space only.
ReplaceFirstSpace(ns) ==
  IF \E i \in 1..Len(ns) : ns[i] = SP
  THEN LET i == CHOOSE k \in 1..Len(ns) : ns[k] = SP /\ \A j \in 1..(k-1) : ns[j] # SP
       IN Lits(SubSeq(ns, 1, i-1)) \o <<Lit(SP), DotStar, OptSp>>
            \o Lits(SubSeq(ns, i+1, Len(ns)))
  ELSE Lits(ns)

\* new RegExp('(?:^| )' + ns.replace(' ', ' .* ?') + '(?: |$)')
matcherFor(ns) == <<BosOrSp>> \o ReplaceFirstSpace(ns) \o <<SpOrEos>>

RECURSIVE MatchAt(_, _, _, _)
\* The pattern from item p on matches s from position j on.
MatchAt(pat, p, s, j) ==
  IF p > Len(pat) THEN TRUE
  ELSE LET it == pat[p] IN
    CASE it.k = "lit" -> j <= Len(s) /\ s[j] = it.c /\ MatchAt(pat, p+1, s, j+1)
      [] it.k = "bosOrSp" ->
           \/ j = 1 /\ MatchAt(pat, p+1, s, j)
           \/ j <= Len(s) /\ s[j] = SP /\ MatchAt(pat, p+1, s, j+1)
      [] it.k = "dotStar" -> \E n \in j..(Len(s)+1) : MatchAt(pat, p+1, s, n)
      [] it.k = "optSp" ->
           \/ j <= Len(s) /\ s[j] = SP /\ MatchAt(pat, p+1, s, j+1)
           \/ MatchAt(pat, p+1, s, j)
      [] it.k = "spOrEos" ->
           \/ j <= Len(s) /\ s[j] = SP /\ MatchAt(pat, p+1, s, j+1)
           \/ j = Len(s) + 1 /\ MatchAt(pat, p+1, s, j)

\* RegExp.prototype.test: the pattern matches somewhere in s.
RegExpTest(pat, s) == \E j \in 1..(Len(s)+1) : MatchAt(pat, 1, s, j)

----------------------------------------------------------------------------
(* Values *)

Undefined == "undefined"
\* An omitted `types` argument (a string of code units cannot be "undefined").
UndefinedTypes == <<0>>
\* !x for a string of code units (types, event.type, event.ns).
FalsyStr(s) == s = UndefinedTypes \/ s = EmptyStr
\* !x for a callback or a selector.
Falsy(x) == x = Undefined \/ x = ""

\* The data argument of add: what typeof/isObjectLike and .useCapture see.
NoData == [kind |-> "undefined", useCapture |-> FALSE]
CaptureData == [kind |-> "object", useCapture |-> TRUE]
PlainData == [kind |-> "object", useCapture |-> FALSE]
StringData == [kind |-> "string", useCapture |-> FALSE]

\* A slot emptied by `delete handlersInElement[i]`.
Hole == [hole |-> TRUE]

\* The module state threaded through a call.
State == [idMap |-> elementIdMap, idCtr |-> elementId, hMap |-> handlersMap,
          lst |-> listeners, pc |-> proxyCount]

----------------------------------------------------------------------------
(* Identity registry and handler store *)

\* An id handed out without storing the advanced counter.
getElementIdCounterNotStored(st, element) ==
  IF element \in DOMAIN st.idMap
  THEN [st |-> st, id |-> st.idMap[element]]
  ELSE [st |-> [st EXCEPT !.idMap = @ @@ (element :> (st.idCtr + 1))],
        id |-> st.idCtr + 1]

\* getElementId: the id of `element`, allocated with ++elementId on first use.
getElementId(st, element) ==
  IF element \in DOMAIN st.idMap
  THEN [st |-> st, id |-> st.idMap[element]]
  ELSE [st |-> [st EXCEPT !.idMap = @ @@ (element :> (st.idCtr + 1)),
                          !.idCtr = @ + 1],
        id |-> st.idCtr + 1]

\* getHandlers: the key of the element's handler list, created empty on first use.
getHandlers(st, element) ==
  LET r == getElementId(st, element)
  IN IF r.id \in DOMAIN r.st.hMap
     THEN r
     ELSE [st |-> [r.st EXCEPT !.hMap = @ @@ (r.id :> <<>>)], id |-> r.id]

----------------------------------------------------------------------------
(* Native listener list of an event target *)

\* EventTarget.addEventListener: an identical (type, callback, capture) is not added twice.
addEventListener(st, target, type, callback, capture) ==
  LET entry == [type |-> type, callback |-> callback, capture |-> capture]
  IN IF \E i \in 1..Len(st.lst[target]) : st.lst[target][i] = entry
     THEN st
     ELSE [st EXCEPT !.lst[target] = Append(@, entry)]

\* EventTarget.removeEventListener: removes the entry with that type, callback AND capture.
removeEventListener(st, target, type, callback, capture) ==
  LET entry == [type |-> type, callback |-> callback, capture |-> capture]
  IN [st EXCEPT !.lst[target] = SelectSeq(@, LAMBDA e : e # entry)]

----------------------------------------------------------------------------
(* getMatchedHandlers *)

\* Mutant of MatchHandler: the callback filter is not applied.
MatchHandlerAnyFunc(st, handler, event, func, selector) ==
  IF ~ (FalsyStr(event.type) \/ handler.type = event.type) THEN [st |-> st, ok |-> FALSE]
  ELSE IF ~ (FalsyStr(event.ns) \/ RegExpTest(matcherFor(event.ns), handler.ns))
       THEN [st |-> st, ok |-> FALSE]
  ELSE [st |-> st, ok |-> Falsy(selector) \/ handler.selector = selector]

\* The filter callback of getMatchedHandlers on one stored handler, with the
\* short-circuit order of the code: getElementId runs only if type and ns matched.
MatchHandler(st, handler, event, func, selector) ==
  IF ~ (FalsyStr(event.type) \/ handler.type = event.type) THEN [st |-> st, ok |-> FALSE]
  ELSE IF ~ (FalsyStr(event.ns) \/ RegExpTest(matcherFor(event.ns), handler.ns))
       THEN [st |-> st, ok |-> FALSE]
  ELSE IF Falsy(func) THEN [st |-> st, ok |-> Falsy(selector) \/ handler.selector = selector]
  ELSE LET a == getElementId(st, handler.func)
           b == getElementId(a.st, func)
       IN IF a.id # b.id THEN [st |-> b.st, ok |-> FALSE]
          ELSE [st |-> b.st, ok |-> Falsy(selector) \/ handler.selector = selector]

RECURSIVE FilterFrom(_, _, _, _, _, _, _)
\* Array.prototype.filter from index i on: holes are skipped.
FilterFrom(st, hid, i, event, func, selector, acc) ==
  IF i > Len(st.hMap[hid]) THEN [st |-> st, matched |-> acc]
  ELSE LET h == st.hMap[hid][i] IN
       IF h = Hole THEN FilterFrom(st, hid, i + 1, event, func, selector, acc)
       ELSE LET m == MatchHandler(st, h, event, func, selector)
            IN FilterFrom(m.st, hid, i + 1, event, func, selector,
                          IF m.ok THEN Append(acc, h) ELSE acc)

getMatchedHandlers(st, element, type, func, selector) ==
  LET event == parse(type)
      g == getHandlers(st, element)
  IN FilterFrom(g.st, g.id, 1, event, func, selector, <<>>)

----------------------------------------------------------------------------
(* add *)

\* let useCapture = false; if (isObjectLike(data) && data.useCapture) useCapture = true
\* The capture flag left at its initial false whatever the data.
UseCaptureNever(data) == FALSE

UseCapture(data) == data.kind = "object" /\ data.useCapture

\* Mutant of AddToken: one proxy closure is reused by every registration, so
\* the platform sees the same listener again and does not attach it.
AddTokenSharedProxy(st, element, type, func, data, selector, useCapture) ==
  IF type = EmptyStr THEN st
  ELSE LET event == parse(type)
           proxyFn == [pid |-> 1, element |-> element, ns |-> event.ns,
                       func |-> func, data |-> data, selector |-> selector]
           g1 == getHandlers(st, element)
           handler == [type |-> event.type, ns |-> event.ns, func |-> func,
                       selector |-> selector,
                       id |-> Len(g1.st.hMap[g1.id]), proxy |-> proxyFn]
           pushed == [g1.st EXCEPT !.hMap[g1.id] = Append(@, handler),
                                   !.pc = @ + 1]
       IN addEventListener(pushed, element, handler.type, proxyFn, useCapture)

\* Mutant of AddToken: a listener is attached only for the first record of a
\* type on the target.
AddTokenOnePerType(st, element, type, func, data, selector, useCapture) ==
  IF type = EmptyStr THEN st
  ELSE LET event == parse(type)
           proxyFn == [pid |-> st.pc + 1, element |-> element, ns |-> event.ns,
                       func |-> func, data |-> data, selector |-> selector]
           g1 == getHandlers(st, element)
           handler == [type |-> event.type, ns |-> event.ns, func |-> func,
                       selector |-> selector,
                       id |-> Len(g1.st.hMap[g1.id]), proxy |-> proxyFn]
           pushed == [g1.st EXCEPT !.hMap[g1.id] = Append(@, handler),
                                   !.pc = @ + 1]
       IN IF \E i \in 1..Len(st.lst[element]) : st.lst[element][i].type = event.type
          THEN pushed
          ELSE addEventListener(pushed, element, handler.type, proxyFn, useCapture)

\* The body of types.split(' ').forEach in add, for one token.
AddToken(st, element, type, func, data, selector, useCapture) ==
  IF type = EmptyStr THEN st
  ELSE LET event == parse(type)
           proxyFn == [pid |-> st.pc + 1, element |-> element, ns |-> event.ns,
                       func |-> func, data |-> data, selector |-> selector]
           g1 == getHandlers(st, element)
           handler == [type |-> event.type, ns |-> event.ns, func |-> func,
                       selector |-> selector,
                       id |-> Len(g1.st.hMap[g1.id]), proxy |-> proxyFn]
           g2 == getHandlers(g1.st, element)
           pushed == [g2.st EXCEPT !.hMap[g2.id] = Append(@, handler),
                                   !.pc = @ + 1]
       IN addEventListener(pushed, element, handler.type, proxyFn, useCapture)

RECURSIVE AddTokens(_, _, _, _, _, _, _)
AddTokens(st, element, tokens, func, data, selector, useCapture) ==
  IF tokens = <<>> THEN st
  ELSE AddTokens(AddToken(st, element, Head(tokens), func, data, selector, useCapture),
                 element, Tail(tokens), func, data, selector, useCapture)

addResult(st, element, types, func, data, selector) ==
  AddTokens(st, element, Split(types, SP), func, data, selector, UseCapture(data))

----------------------------------------------------------------------------
(* remove *)

\* The record is cut out of the array, moving the later records down one slot.
removeEventSplices(st, element, hid, handler) ==
  LET deleted == IF handler.id + 1 \in 1..Len(st.hMap[hid])
                 THEN [st EXCEPT !.hMap[hid] = SubSeq(@, 1, handler.id)
                                               \o SubSeq(@, handler.id + 2, Len(@))]
                 ELSE st
  IN removeEventListener(deleted, element, handler.type, handler.proxy, FALSE)

\* removeEvent: delete handlersInElement[handler.id]; removeEventListener(type, proxy, false)
removeEvent(st, element, hid, handler) ==
  LET deleted == IF handler.id + 1 \in 1..Len(st.hMap[hid])
                 THEN [st EXCEPT !.hMap[hid][handler.id + 1] = Hole]
                 ELSE st
  IN removeEventListener(deleted, element, handler.type, handler.proxy, FALSE)

\* Mutant of RemoveEach: only the first matched record is removed.
RemoveFirstOnly(st, element, hid, matched) ==
  IF matched = <<>> THEN st
  ELSE removeEvent(st, element, hid, Head(matched))

RECURSIVE RemoveEach(_, _, _, _)
\* matched.forEach(removeEvent) over an array built before the first deletion.
RemoveEach(st, element, hid, matched) ==
  IF matched = <<>> THEN st
  ELSE RemoveEach(removeEvent(st, element, hid, Head(matched)), element, hid, Tail(matched))

RECURSIVE RemoveAllFromShifted(_, _, _, _)
\* A walk that loses its place after each deletion and passes over the next slot.
RemoveAllFromShifted(st, element, hid, i) ==
  IF i > Len(st.hMap[hid]) THEN st
  ELSE IF st.hMap[hid][i] = Hole THEN RemoveAllFromShifted(st, element, hid, i + 1)
  ELSE RemoveAllFromShifted(removeEvent(st, element, hid, st.hMap[hid][i]),
                            element, hid, i + 2)

RECURSIVE RemoveAllFrom(_, _, _, _)
\* handlersInElement.forEach(removeEvent): walks the live array, skipping holes.
RemoveAllFrom(st, element, hid, i) ==
  IF i > Len(st.hMap[hid]) THEN st
  ELSE IF st.hMap[hid][i] = Hole THEN RemoveAllFrom(st, element, hid, i + 1)
  ELSE RemoveAllFrom(removeEvent(st, element, hid, st.hMap[hid][i]), element, hid, i + 1)

RECURSIVE RemoveTokens(_, _, _, _, _, _)
RemoveTokens(st, element, hid, tokens, func, selector) ==
  IF tokens = <<>> THEN st
  ELSE IF Head(tokens) = EmptyStr
       THEN RemoveTokens(st, element, hid, Tail(tokens), func, selector)
  ELSE LET m == getMatchedHandlers(st, element, Head(tokens), func, selector)
       IN RemoveTokens(RemoveEach(m.st, element, hid, m.matched),
                       element, hid, Tail(tokens), func, selector)

removeResult(st, element, types, func, selector) ==
  LET g == getHandlers(st, element)
  IN IF FalsyStr(types)
     THEN RemoveAllFrom(g.st, element, g.id, 1)
     ELSE RemoveTokens(g.st, element, g.id, Split(types, SP), func, selector)

----------------------------------------------------------------------------
(* The document *)

\* el is a container with the children a, b, c; x is a child of b; other is
\* a second target outside el.
Nodes == {"el", "a", "b", "x", "c", "other"}
DocOrder == <<"el", "a", "b", "x", "c", "other">>
Parent == [n \in Nodes |-> CASE n \in {"a", "b", "c"} -> "el"
                              [] n = "x" -> "b"
                              [] OTHER -> Undefined]

RECURSIVE IsAncestor(_, _)
\* a is a proper ancestor of n.
IsAncestor(a, n) ==
  IF Parent[n] = Undefined THEN FALSE
  ELSE Parent[n] = a \/ IsAncestor(a, Parent[n])

\* contains(container, contained) of functions/contains.js.
contains(container, node) == IsAncestor(container, node)

\* Element.matches(selector)
SelectorMatches(n, selector) ==
  CASE selector = ".item" -> n \in {"a", "b", "c"}
    [] selector = ".any" -> n \in {"b", "x"}
    [] OTHER -> FALSE

\* $(element).find(selector).get(): the matching descendants in document order.
find(element, selector) ==
  SelectSeq(DocOrder, LAMBDA n : IsAncestor(element, n) /\ SelectorMatches(n, selector))

\* Array.prototype.reverse
\* The matched elements left in document order.
ReverseKeepsOrder(seq) == seq

Reverse(seq) == [i \in 1..Len(seq) |-> seq[Len(seq) + 1 - i]]

----------------------------------------------------------------------------
(* The proxy *)

NoEvent == [type |-> EmptyStr, target |-> Undefined, currentTarget |-> Undefined,
            ns |-> EmptyStr, data |-> NoData,
            defaultPrevented |-> FALSE, propagationStopped |-> FALSE]

\* What a callback may return.
RFalse == "false"
RetVals == {RFalse, "undefined", "0", "null", "''", "true"}

NoReturn == [result |-> "none", preventDefault |-> FALSE, stopPropagation |-> FALSE]

\* proxyFn, first test: an event with a namespace the handler does not carry is ignored.
ProxyIgnores(proxy, e) ==
  ~ FalsyStr(e.ns) /\ ~ RegExpTest(matcherFor(e.ns), proxy.ns)

\* Mutant of ProxyTargets: the callback is invoked on every matched descendant.
ProxyTargetsAllMatched(proxy, e) ==
  IF ~ Falsy(proxy.selector)
  THEN Reverse(find(proxy.element, proxy.selector))
  ELSE <<proxy.element>>

\* proxyFn: the elements the callback is invoked on, in invocation order.
ProxyTargets(proxy, e) ==
  IF ~ Falsy(proxy.selector)
  THEN SelectSeq(Reverse(find(proxy.element, proxy.selector)),
                 LAMBDA elem : elem = e.target \/ contains(elem, e.target))
  ELSE <<proxy.element>>

\* Mutant of CallFnCancels: any falsy result cancels (!result).
CallFnCancelsFalsy(result) == result \in {RFalse, "undefined", "0", "null", "''"}

\* callFn: preventDefault and stopPropagation are called when result === false.
CallFnCancels(result) == result = RFalse

----------------------------------------------------------------------------
(* Actions *)

Targets == {"el", "other"}

\* The state after a call that ended in state st.
Becomes(st) ==
  /\ elementIdMap' = st.idMap
  /\ elementId' = st.idCtr
  /\ handlersMap' = st.hMap
  /\ listeners' = st.lst
  /\ proxyCount' = st.pc

NoOp == [op |-> "init", element |-> Undefined, types |-> UndefinedTypes,
         func |-> Undefined, data |-> NoData, selector |-> Undefined, removed |-> 0]

\* Number of slots in all handler lists.
RECURSIVE SumLen(_)
SumLen(ids) ==
  IF ids = {} THEN 0
  ELSE LET i == CHOOSE k \in ids : TRUE IN Len(handlersMap[i]) + SumLen(ids \ {i})

\* The handler list of a target (empty while the target has no list yet).
HandlersOf(element) ==
  IF element \in DOMAIN elementIdMap /\ elementIdMap[element] \in DOMAIN handlersMap
  THEN handlersMap[elementIdMap[element]]
  ELSE <<>>

\* The handler list of a target after the step.
HandlersAfter(element) ==
  IF element \in DOMAIN elementIdMap' /\ elementIdMap'[element] \in DOMAIN handlersMap'
  THEN handlersMap'[elementIdMap'[element]]
  ELSE <<>>

\* The slots of a target that hold a record.
Live(element) == {i \in 1..Len(HandlersOf(element)) : HandlersOf(element)[i] # Hole}
LiveAfter(element) == {i \in 1..Len(HandlersAfter(element)) : HandlersAfter(element)[i] # Hole}

\* Number of non-empty tokens of a types string.
TokenCount(types) == Len(SelectSeq(Split(types, SP), LAMBDA t : t # EmptyStr))

add(element, types, func, data, selector) ==
  /\ ev = NoEvent
  /\ UNCHANGED dispatchVars
  /\ UNCHANGED restVars
  /\ SumLen(DOMAIN handlersMap) + TokenCount(types) <= MaxHandlers
  /\ Becomes(addResult(State, element, types, func, data, selector))
  /\ lastOp' = [op |-> "add", element |-> element, types |-> types, func |-> func,
                data |-> data, selector |-> selector, removed |-> 0]

remove(element, types, func, selector) ==
  /\ ev = NoEvent
  /\ UNCHANGED dispatchVars
  /\ UNCHANGED restVars
  /\ Becomes(removeResult(State, element, types, func, selector))
  /\ lastOp' = [op |-> "remove", element |-> element, types |-> types, func |-> func,
                data |-> NoData, selector |-> selector,
                removed |-> Cardinality(Live(element)) - Cardinality(LiveAfter(element))]

\* The drawer after construction, before its first update.
InitDrawer ==
  /\ open = FALSE
  /\ handset = FALSE
  /\ modal = FALSE
  /\ contained = FALSE
  /\ hasUpdated = FALSE
  /\ changedOpen = Undefined
  /\ display = InlineUnset
  /\ modalActive = FALSE
  /\ locked = {}
  /\ runs = <<>>
  /\ emitted = <<>>

\* The event engine after the module is loaded.
InitEngine ==
  /\ elementIdMap = <<>>
  /\ elementId = 1
  /\ handlersMap = <<>>
  /\ listeners = [t \in Targets |-> <<>>]
  /\ proxyCount = 0
  /\ lastOp = NoOp
  /\ ev = NoEvent
  /\ queue = <<>>
  /\ pending = <<>>
  /\ calls = <<>>
  /\ returned = NoReturn

Init ==
  /\ InitEngine
  /\ parseInput = NoToken
  /\ parseOutput = NoParse
  /\ InitDrawer

\* A callback that is never passed to add.
NeverAdded == "h"

Str(parts) == Join(parts, DOT)

AddCall(element, types, func, data, selector) ==
  [element |-> element, types |-> types, func |-> func, data |-> data, selector |-> selector]
RemoveCall(element, types, func, selector) ==
  [element |-> element, types |-> types, func |-> func, selector |-> selector]

AddCalls ==
  { AddCall("el", click, "f", NoData, Undefined),
    AddCall("el", click, "g", CaptureData, Undefined),
    AddCall("el", Str(<<click, TagA>>), "f", StringData, ".item"),
    AddCall("el", focus \o <<SP, SP>> \o click, "f", CaptureData, Undefined),
    AddCall("other", click, "f", PlainData, Undefined) }

RemoveCalls ==
  { RemoveCall("el", UndefinedTypes, Undefined, Undefined),
    RemoveCall("el", click, "f", Undefined),
    RemoveCall("el", click \o <<SP>> \o focus, NeverAdded, Undefined),
    RemoveCall("el", Str(<<click, TagA>>), Undefined, ".item"),
    RemoveCall("other", EmptyStr, Undefined, Undefined),
    RemoveCall("other", click, NeverAdded, Undefined) }

Add == \E c \in AddCalls : add(c.element, c.types, c.func, c.data, c.selector)

Remove == \E c \in RemoveCalls : remove(c.element, c.types, c.func, c.selector)

Next == Add \/ Remove

Spec == Init /\ [][Next]_vars

----------------------------------------------------------------------------
(* Namespaces: add and remove calls with several namespace tags *)

NsAddCalls ==
  { AddCall("el", click, "f", NoData, Undefined),
    AddCall("el", Str(<<click, TagA>>), "f", NoData, Undefined),
    AddCall("el", Str(<<click, TagB, TagA>>), "f", NoData, Undefined),
    AddCall("el", Str(<<click, TagXB, TagA>>), "f", NoData, Undefined),
    AddCall("el", Str(<<click, TagD, TagC, TagB, TagA>>), "f", NoData, Undefined),
    AddCall("el", Str(<<focus, TagA, TagB>>), "f", NoData, Undefined) }

NsRemoveCalls ==
  { RemoveCall("el", click, Undefined, Undefined),
    RemoveCall("el", Str(<<click, TagB>>), Undefined, Undefined),
    RemoveCall("el", Str(<<click, TagB, TagA>>), Undefined, Undefined),
    RemoveCall("el", Str(<<click, TagD, TagA>>), Undefined, Undefined),
    RemoveCall("el", Str(<<click, TagA, TagC, TagD>>), Undefined, Undefined),
    RemoveCall("el", Str(<<click, TagA, TagB, TagD>>), Undefined, Undefined),
    RemoveCall("el", Str(<<EmptyStr, TagB, TagA>>), Undefined, Undefined),
    RemoveCall("el", Str(<<click, TagX>>), Undefined, Undefined) }

NsAdd == \E c \in NsAddCalls : add(c.element, c.types, c.func, c.data, c.selector)

NsRemove == \E c \in NsRemoveCalls : remove(c.element, c.types, c.func, c.selector)

NextNs == NsAdd \/ NsRemove

SpecNs == Init /\ [][NextNs]_vars

----------------------------------------------------------------------------
(* Dispatch: a native event delivered to the listeners of one target *)

DispatchAddCalls ==
  { AddCall("el", click, "f", NoData, Undefined),
    AddCall("el", click, "f", NoData, ".item"),
    AddCall("el", Str(<<click, TagA>>), "g", StringData, ".any"),
    AddCall("el", focus, "g", NoData, Undefined) }

DispatchRemoveCalls ==
  { RemoveCall("el", click, Undefined, Undefined),
    RemoveCall("el", UndefinedTypes, Undefined, Undefined) }

DispatchTypes == {click, focus}
DispatchTargets == {"el", "b", "x"}
\* e._ns: empty for a native event, a namespace for an event of a synthetic trigger.
DispatchNamespaces == {EmptyStr, TagA}

DispatchAdd == \E c \in DispatchAddCalls : add(c.element, c.types, c.func, c.data, c.selector)

DispatchRemove == \E c \in DispatchRemoveCalls : remove(c.element, c.types, c.func, c.selector)

\* The listeners of currentTarget for the event's type, in the order they were attached.
ListenersFor(currentTarget, type) ==
  LET matching == SelectSeq(listeners[currentTarget], LAMBDA l : l.type = type)
  IN [i \in 1..Len(matching) |-> matching[i].callback]

\* dispatchEvent starts: an event of `type` whose target is `target` reaches currentTarget.
dispatchEvent(currentTarget, target, type, ns) ==
  /\ ev = NoEvent
  /\ target = currentTarget \/ IsAncestor(currentTarget, target)
  /\ ev' = [NoEvent EXCEPT !.type = type, !.target = target,
                           !.currentTarget = currentTarget, !.ns = ns]
  /\ queue' = ListenersFor(currentTarget, type)
  /\ pending' = <<>>
  /\ calls' = <<>>
  /\ returned' = NoReturn
  /\ UNCHANGED engineVars
  /\ UNCHANGED restVars

Dispatch ==
  \E type \in DispatchTypes, target \in DispatchTargets, ns \in DispatchNamespaces :
    dispatchEvent("el", target, type, ns)

\* The browser invokes the next listener: proxyFn up to its callback invocations.
proxyFn ==
  /\ ev # NoEvent
  /\ pending = <<>>
  /\ queue # <<>>
  /\ LET proxy == Head(queue) IN
       IF ProxyIgnores(proxy, ev)
       THEN UNCHANGED <<ev, pending>>
       ELSE /\ ev' = [ev EXCEPT !.data = proxy.data]
            /\ pending' = LET elems == ProxyTargets(proxy, ev)
                          IN [i \in 1..Len(elems) |->
                                [pid |-> proxy.pid, func |-> proxy.func, elem |-> elems[i]]]
  /\ queue' = Tail(queue)
  /\ UNCHANGED <<calls, returned>>
  /\ UNCHANGED engineVars
  /\ UNCHANGED restVars

\* callFn: one invocation of the callback, which returns `result`.
callFn ==
  /\ pending # <<>>
  /\ \E result \in RetVals :
       LET cancels == CallFnCancels(result) IN
       /\ returned' = [result |-> result, preventDefault |-> cancels,
                       stopPropagation |-> cancels]
       /\ ev' = [ev EXCEPT !.defaultPrevented = @ \/ cancels,
                           !.propagationStopped = @ \/ cancels]
  /\ calls' = Append(calls, Head(pending))
  /\ pending' = Tail(pending)
  /\ UNCHANGED queue
  /\ UNCHANGED engineVars
  /\ UNCHANGED restVars

\* The dispatch is complete: every listener has run.
Dispatched == ev # NoEvent /\ queue = <<>> /\ pending = <<>>

\* dispatchEvent returns.
DispatchReturn ==
  /\ Dispatched
  /\ ev' = NoEvent
  /\ calls' = <<>>
  /\ returned' = NoReturn
  /\ UNCHANGED <<queue, pending>>
  /\ UNCHANGED engineVars
  /\ UNCHANGED restVars

NextDispatch ==
  \/ DispatchAdd
  \/ DispatchRemove
  \/ Dispatch
  \/ proxyFn
  \/ callFn
  \/ DispatchReturn

SpecDispatch == Init /\ [][NextDispatch]_vars
----------------------------------------------------------------------------
(* Properties *)

\* The non-empty tokens of a types string.
Tokens(types) == SelectSeq(Split(types, SP), LAMBDA t : t # EmptyStr)

\* The set of namespace tags of a canonical namespace string.
Tags(ns) == IF ns = EmptyStr THEN {} ELSE {Split(ns, SP)[i] : i \in 1..Len(Split(ns, SP))}

\* The step is a remove call with type tokens.
RemoveWithTokens == lastOp'.op = "remove" /\ ~ FalsyStr(lastOp'.types)

\* The type and the namespace of query token tok select record r (subset test).
TokenSelects(tok, r) ==
  /\ parse(tok).type = EmptyStr \/ parse(tok).type = r.type
  /\ Tags(parse(tok).ns) \subseteq Tags(r.ns)

\* The listeners of a target whose callback is the proxy of record r.
ListenersOfRecord(element, r) ==
  {i \in 1..Len(listeners[element]) : listeners[element][i].callback = r.proxy}

\* C1: remove(target, token) with no callback and no selector removes every
\* record whose type the token selects and whose namespace tags include all
\* tags of the token.
C1_SubsetQueryRemoves ==
  [][(RemoveWithTokens /\ Falsy(lastOp'.func) /\ Falsy(lastOp'.selector)) =>
       \A i \in Live(lastOp'.element) :
         (\E k \in 1..Len(Tokens(lastOp'.types)) :
            TokenSelects(Tokens(lastOp'.types)[k], HandlersOf(lastOp'.element)[i]))
         => HandlersAfter(lastOp'.element)[i] = Hole]_vars

\* C2: remove(target, token) never removes a record when some namespace tag of
\* the token is not a whole tag of the record.
C2_MissingTagKeeps ==
  [][RemoveWithTokens =>
       \A i \in Live(lastOp'.element) :
         (\A k \in 1..Len(Tokens(lastOp'.types)) :
            ~ (Tags(parse(Tokens(lastOp'.types)[k]).ns)
                 \subseteq Tags(HandlersOf(lastOp'.element)[i].ns)))
         => HandlersAfter(lastOp'.element)[i] = HandlersOf(lastOp'.element)[i]]_vars

\* C3: after remove(target) with no type tokens the target's list holds no
\* record and no listener attached by add remains attached to the target.
C3_TeardownDetachesAll ==
  (lastOp.op = "remove" /\ FalsyStr(lastOp.types)) =>
    /\ Live(lastOp.element) = {}
    /\ listeners[lastOp.element] = <<>>

\* The last call was remove(target, type, cb): one token without namespace, a
\* callback and no selector.
RemovedByCallback ==
  /\ lastOp.op = "remove"
  /\ ~ FalsyStr(lastOp.types)
  /\ Len(Tokens(lastOp.types)) = 1
  /\ parse(Tokens(lastOp.types)[1]).ns = EmptyStr
  /\ parse(Tokens(lastOp.types)[1]).type # EmptyStr
  /\ ~ Falsy(lastOp.func)
  /\ Falsy(lastOp.selector)

\* C4: after remove(target, type, cb) no record of that type and callback is
\* left on the target, whatever its namespace or selector, and no listener that
\* add attached for such a record without the capture flag is left attached.
C4_CallbackFilterRemovesAll ==
  RemovedByCallback =>
    /\ \A i \in Live(lastOp.element) :
         ~ (/\ HandlersOf(lastOp.element)[i].type = parse(Tokens(lastOp.types)[1]).type
            /\ HandlersOf(lastOp.element)[i].func = lastOp.func)
    /\ \A j \in 1..Len(listeners[lastOp.element]) :
         (/\ listeners[lastOp.element][j].type = parse(Tokens(lastOp.types)[1]).type
          /\ listeners[lastOp.element][j].callback.func = lastOp.func)
         => listeners[lastOp.element][j].capture

\* C4 witness: one remove(el, "click", f) has removed two or more records and
\* detached a listener, and a record of another callback is left.
C4_Witness ==
  /\ RemovedByCallback
  /\ lastOp.removed >= 2
  /\ \E i \in Live(lastOp.element) : HandlersOf(lastOp.element)[i].func # lastOp.func
  /\ \E p \in 1..proxyCount :
       \A j \in 1..Len(listeners[lastOp.element]) :
         listeners[lastOp.element][j].callback.pid # p

\* Number of entries of seq that satisfy Test.
Count(seq, Test(_)) == Len(SelectSeq(seq, Test))

\* C5: add never deduplicates. Each non-empty token of an add call appends one
\* record and attaches one more listener with a proxy of its own, and a
\* completed dispatch of a native event (no namespace) has invoked a callback
\* once for every directly bound record of the event's type that holds it.
C5_AddNeverDeduplicates ==
  /\ [][proxyCount' # proxyCount =>
          LET el == lastOp'.element
              n == TokenCount(lastOp'.types)
          IN /\ lastOp'.op = "add"
             /\ proxyCount' = proxyCount + n
             /\ Len(HandlersAfter(el)) = Len(HandlersOf(el)) + n
             /\ Cardinality(LiveAfter(el)) = Cardinality(Live(el)) + n
             /\ Len(listeners'[el]) = Len(listeners[el]) + n
             /\ \A i \in (Len(HandlersOf(el)) + 1)..Len(HandlersAfter(el)) :
                  /\ HandlersAfter(el)[i].proxy.pid > proxyCount
                  /\ \E j \in (Len(listeners[el]) + 1)..Len(listeners'[el]) :
                       listeners'[el][j].callback = HandlersAfter(el)[i].proxy
                  /\ \A k \in 1..Len(HandlersAfter(el)) :
                       (k # i /\ HandlersAfter(el)[k] # Hole)
                         => HandlersAfter(el)[k].proxy # HandlersAfter(el)[i].proxy]_vars
  /\ []((Dispatched /\ ev.ns = EmptyStr) =>
          \A fn \in {"f", "g"} :
            Count(calls, LAMBDA c : c.func = fn /\ c.elem = ev.currentTarget)
              = Cardinality({i \in Live(ev.currentTarget) :
                    /\ HandlersOf(ev.currentTarget)[i].type = ev.type
                    /\ HandlersOf(ev.currentTarget)[i].func = fn
                    /\ Falsy(HandlersOf(ev.currentTarget)[i].selector)}))

\* C5 witness: the same (type, namespace, callback, selector) was registered
\* three times and one dispatch has invoked the callback three times.
C5_Witness ==
  /\ Dispatched
  /\ ev.ns = EmptyStr
  /\ ev.type = click
  /\ Len(calls) = 3
  /\ \A i \in 1..3 : calls[i].func = "f" /\ calls[i].elem = "el"
  /\ Cardinality(Live("el")) = 3
  /\ \A i \in Live("el") :
       /\ HandlersOf("el")[i].type = click
       /\ HandlersOf("el")[i].func = "f"
       /\ Falsy(HandlersOf("el")[i].selector)
  /\ Len(listeners["el"]) = 3

\* C6 as stated: at most one native listener per event type on each target.
C6_OneListenerPerType ==
  \A t \in Targets :
    \A i, j \in 1..Len(listeners[t]) :
      listeners[t][i].type = listeners[t][j].type => i = j

\* C6 amended: every stored record has exactly one native listener attached,
\* its own proxy, of the record's type and holding the record's callback; no
\* two stored records share a proxy.
C6_OneListenerPerRecord ==
  \A t \in Targets :
    /\ \A i \in Live(t) :
         /\ Cardinality(ListenersOfRecord(t, HandlersOf(t)[i])) = 1
         /\ \A j \in ListenersOfRecord(t, HandlersOf(t)[i]) :
              /\ listeners[t][j].type = HandlersOf(t)[i].type
              /\ listeners[t][j].callback.func = HandlersOf(t)[i].func
    /\ \A i, k \in Live(t) :
         i # k => HandlersOf(t)[i].proxy # HandlersOf(t)[k].proxy

\* C6 witness: two stored records of one type on a target, each with its listener.
C6_Witness ==
  \E i, k \in Live("el") :
    /\ i # k
    /\ HandlersOf("el")[i].type = HandlersOf("el")[k].type
    /\ ListenersOfRecord("el", HandlersOf("el")[i])
         # ListenersOfRecord("el", HandlersOf("el")[k])
    /\ ListenersOfRecord("el", HandlersOf("el")[i]) # {}
    /\ ListenersOfRecord("el", HandlersOf("el")[k]) # {}

\* Query token tok with the callback and selector filters selects record r.
Selected(tok, r, func, selector) ==
  /\ TokenSelects(tok, r)
  /\ Falsy(func) \/ r.func = func
  /\ Falsy(selector) \/ r.selector = selector

\* C7: remove(target, token, cb, sel) removes a record exactly when all
\* supplied filters match it, and leaves every other record of the target
\* and of the other targets stored and attached.
C7_RemovesExactlyMatching ==
  [][RemoveWithTokens =>
       LET el == lastOp'.element
           toks == Tokens(lastOp'.types)
           hit(r) == \E k \in 1..Len(toks) :
                       Selected(toks[k], r, lastOp'.func, lastOp'.selector)
       IN /\ \A i \in Live(el) :
               IF hit(HandlersOf(el)[i])
               THEN HandlersAfter(el)[i] = Hole
               ELSE /\ HandlersAfter(el)[i] = HandlersOf(el)[i]
                    /\ \A j \in ListenersOfRecord(el, HandlersOf(el)[i]) :
                         \E m \in 1..Len(listeners'[el]) :
                           listeners'[el][m] = listeners[el][j]
          /\ \A t \in Targets \ {el} :
               /\ HandlersAfter(t) = HandlersOf(t)
               /\ listeners'[t] = listeners[t]]_vars

\* No stored record of the target can match the query, whatever the
\* namespaces: each differs from every token in type, or in callback, or in
\* selector.
NothingMatches(el, types, func, selector) ==
  \A i \in Live(el) :
    \A k \in 1..Len(Tokens(types)) :
      \/ /\ parse(Tokens(types)[k]).type # EmptyStr
         /\ parse(Tokens(types)[k]).type # HandlersOf(el)[i].type
      \/ ~ Falsy(func) /\ HandlersOf(el)[i].func # func
      \/ ~ Falsy(selector) /\ HandlersOf(el)[i].selector # selector

\* C8: a remove call whose query nothing matches, in particular one with a
\* callback never passed to add, changes no handler list and no listener.
C8_UnmatchedRemoveIsNoOp ==
  [][(/\ RemoveWithTokens
      /\ \/ lastOp'.func = NeverAdded
         \/ NothingMatches(lastOp'.element, lastOp'.types, lastOp'.func, lastOp'.selector))
       => /\ \A t \in Targets : HandlersAfter(t) = HandlersOf(t)
          /\ listeners' = listeners]_vars

\* C8 witness: remove(el, "click", h) was called while el held a click record.
C8_Witness ==
  /\ lastOp.op = "remove"
  /\ lastOp.func = NeverAdded
  /\ lastOp.removed = 0
  /\ \E i \in Live(lastOp.element) :
       HandlersOf(lastOp.element)[i].type = parse(Tokens(lastOp.types)[1]).type
  /\ NeverAdded \in DOMAIN elementIdMap

\* The listeners the completed dispatch has invoked.
Invoked == ListenersFor(ev.currentTarget, ev.type)

\* C9: a completed dispatch has invoked the callback of each delegated
\* listener exactly once on every descendant of the registration target that
\* matches the selector and is the event target or contains it, and on no
\* other element.
C9_DelegatedOncePerContainingMatch ==
  Dispatched =>
    \A l \in 1..Len(Invoked) :
      (~ Falsy(Invoked[l].selector) /\ ~ ProxyIgnores(Invoked[l], ev)) =>
        \A n \in Nodes :
          Count(calls, LAMBDA c : c.pid = Invoked[l].pid /\ c.elem = n)
            = IF /\ IsAncestor(Invoked[l].element, n)
                 /\ SelectorMatches(n, Invoked[l].selector)
                 /\ n = ev.target \/ IsAncestor(n, ev.target)
              THEN 1 ELSE 0

\* C9 witness: the selector matches the siblings a, b, c, the event target x
\* is inside b, and the callback has run once, on b.
C9_Witness ==
  /\ Dispatched
  /\ ev.target = "x"
  /\ \E l \in 1..Len(Invoked) :
       /\ Invoked[l].selector = ".item"
       /\ find(Invoked[l].element, ".item") = <<"a", "b", "c">>
       /\ Count(calls, LAMBDA c : c.pid = Invoked[l].pid) = 1
       /\ \E i \in 1..Len(calls) : calls[i].pid = Invoked[l].pid /\ calls[i].elem = "b"

\* C10: a callback invocation is followed by preventDefault and
\* stopPropagation exactly when the callback returned false itself.
C10_CancelIffStrictlyFalse ==
  returned # NoReturn =>
    /\ returned.preventDefault <=> returned.result = "false"
    /\ returned.stopPropagation <=> returned.result = "false"
    /\ returned.preventDefault => ev.defaultPrevented
    /\ returned.stopPropagation => ev.propagationStopped

\* C10 witness: a delegated callback returned 0 after a direct one returned
\* false: the second invocation cancelled nothing.
C10_Witness ==
  /\ returned.result = "0"
  /\ ~ returned.preventDefault
  /\ ~ returned.stopPropagation
  /\ ev.defaultPrevented
  /\ Len(calls) >= 2
  /\ calls[Len(calls)].elem # ev.currentTarget

----------------------------------------------------------------------------
(* parse as a function of its token *)

MaxSegments == 3

ParseTypes == {click, focus, EmptyStr}
ParseSegments == {TagA, TagB, TagD, TagXB, EmptyStr}
SegmentLists == UNION {[1..n -> ParseSegments] : n \in 0..MaxSegments}

\* The tokens parse is applied to, written type.segment.segment...
ParseTokens ==
  {Str(<<type>> \o segments) : type \in ParseTypes, segments \in SegmentLists}

\* parse is about to be called with one of the tokens.
InitParse ==
  /\ InitEngine
  /\ parseInput \in ParseTokens
  /\ parseOutput = NoParse
  /\ InitDrawer

\* The call parse(parseInput) returns.
Parse ==
  /\ parseOutput' = parse(parseInput)
  /\ UNCHANGED parseInput
  /\ UNCHANGED <<engineVars, dispatchVars, drawerVars>>

NextParse == Parse

SpecParse == InitParse /\ [][NextParse]_vars

\* The rearrangements of a list of segments.
Rearranged(segments) ==
  LET n == Len(segments)
  IN {[i \in 1..n |-> segments[p[i]]] :
        p \in {q \in [1..n -> 1..n] : \A i, j \in 1..n : i # j => q[i] # q[j]}}

Ascending(segments) == \A i \in 1..(Len(segments) - 1) : ~ StrLess(segments[i+1], segments[i])

\* The text of a token before its first '.'.
BeforeFirstDot(token) ==
  IF \E i \in 1..Len(token) : token[i] = DOT
  THEN SubSeq(token, 1, (CHOOSE i \in 1..Len(token) :
                           token[i] = DOT /\ \A j \in 1..(i-1) : token[j] # DOT) - 1)
  ELSE token

\* C11: parse returns as type the text before the first '.', and as namespace
\* the remaining segments in ascending order joined by single spaces; every
\* rearrangement of the namespace segments of the token parses to the same
\* type and namespace.
C11_ParseIgnoresSegmentOrder ==
  parseOutput # NoParse =>
    LET segments == Tail(Split(parseInput, DOT))
    IN /\ parseOutput.type = BeforeFirstDot(parseInput)
       /\ \E s \in Rearranged(segments) : Ascending(s) /\ parseOutput.ns = Join(s, SP)
       /\ \A s \in Rearranged(segments) :
            parse(Str(<<parseOutput.type>> \o s)) = parseOutput

\* A token whose three namespace segments are written out of order.
C11_Witness ==
  /\ parseInput = Str(<<click, TagXB, TagA, TagB>>)
  /\ parseOutput = [type |-> click, ns |-> Join(<<TagA, TagB, TagXB>>, SP)]

----------------------------------------------------------------------------
(* Identity registry *)

\* C12: an object (a target or a callback, one shared counter) gets its id on
\* the first request, an integer above zero and above every id handed out
\* before; it keeps that id in every later step; and two different objects
\* never hold the same id.
C12_IdentityStableInjective ==
  [][ /\ \A o \in DOMAIN elementIdMap :
            o \in DOMAIN elementIdMap' /\ elementIdMap'[o] = elementIdMap[o]
      /\ \A o \in DOMAIN elementIdMap' \ DOMAIN elementIdMap :
            /\ elementIdMap'[o] > 0
            /\ \A p \in DOMAIN elementIdMap : elementIdMap'[o] > elementIdMap[p]
      /\ \A o, p \in DOMAIN elementIdMap' :
            o # p => elementIdMap'[o] # elementIdMap'[p] ]_vars

\* Both targets and a callback hold an id.
C12_Witness ==
  /\ {"el", "other", "f"} \subseteq DOMAIN elementIdMap
  /\ lastOp.op = "remove"

----------------------------------------------------------------------------
(* Navigation drawer: packages/components/src/navigation-drawer/index.ts *)

MaxRequests == 3

BoolStr(b) == IF b THEN "true" ELSE "false"

\* open is not among the changed properties of the pending update.
Absent == "absent"

\* get lockTarget(): contained ? parentElement : document.body
lockTarget == IF contained THEN "parentElement" ELSE "body"

\* get isModal(): handset || modal
isModal == handset \/ modal

\* lockScreen(this, target) and unlockScreen(this, target): the targets that
\* hold a lock of this drawer.
lockScreen(locks, target) == locks \cup {target}
unlockScreen(locks, target) == locks \ {target}

\* The event object emit returns; request numbers the onOpenChange call.
Event(type, request, defaultPrevented) ==
  [type |-> type, request |-> request, defaultPrevented |-> defaultPrevented]

\* Number of onOpenChange calls that have emitted their request event.
Requests == Len(SelectSeq(emitted, LAMBDA e : e.type \in {"open", "close"}))

\* A request that goes on whatever its listeners did.
ReturnsNever(request) == FALSE

\* if (requestOpen.defaultPrevented) return; if (requestClose.defaultPrevented) return;
Returns(request) == request.defaultPrevented

Suspended(kind, request) == [kind |-> kind, pc |-> "stopAnimations", request |-> request]

RemoveAt(seq, i) == SubSeq(seq, 1, i-1) \o SubSeq(seq, i+1, Len(seq))

\* onOpenChange up to its first await; defaultPrevented is what the listeners
\* of the request event decided.
onOpenChange(defaultPrevented) ==
  IF open
  THEN LET requestOpen == Event("open", Requests + 1, defaultPrevented)
       IN /\ emitted' = Append(emitted, requestOpen)
          /\ IF Returns(requestOpen)
             THEN UNCHANGED <<display, modalActive, locked, runs>>
             ELSE /\ display' = IF isModal THEN "block" ELSE "contents"
                  /\ modalActive' = IF isModal THEN TRUE ELSE modalActive
                  /\ locked' = IF isModal THEN lockScreen(locked, lockTarget) ELSE locked
                  /\ runs' = Append(runs, Suspended("open", requestOpen.request))
  ELSE IF hasUpdated
  THEN LET requestClose == Event("close", Requests + 1, defaultPrevented)
       IN /\ emitted' = Append(emitted, requestClose)
          /\ IF Returns(requestClose)
             THEN UNCHANGED <<display, modalActive, locked, runs>>
             ELSE /\ modalActive' = IF isModal THEN FALSE ELSE modalActive
                  /\ runs' = Append(runs, Suspended("close", requestClose.request))
                  /\ UNCHANGED <<display, locked>>
  ELSE UNCHANGED <<display, modalActive, locked, runs, emitted>>

\* An assignment to the open property: the old value is recorded once per update.
SetOpen(value) ==
  /\ value # open
  /\ changedOpen # Absent \/ Requests < MaxRequests
  /\ open' = value
  /\ changedOpen' = IF changedOpen = Absent THEN BoolStr(open) ELSE changedOpen
  /\ UNCHANGED <<handset, modal, contained, hasUpdated, display, modalActive, locked,
                 runs, emitted>>
  /\ UNCHANGED <<engineVars, dispatchVars, parseVars>>

\* setHandset: the container crossed the breakpoint.
setHandset(value) ==
  /\ value # handset
  /\ handset' = value
  /\ UNCHANGED <<open, modal, contained, hasUpdated, changedOpen, display, modalActive,
                 locked, runs, emitted>>
  /\ UNCHANGED <<engineVars, dispatchVars, parseVars>>

SetModal(value) ==
  /\ value # modal
  /\ modal' = value
  /\ UNCHANGED <<open, handset, contained, hasUpdated, changedOpen, display, modalActive,
                 locked, runs, emitted>>
  /\ UNCHANGED <<engineVars, dispatchVars, parseVars>>

SetContained(value) ==
  /\ value # contained
  /\ contained' = value
  /\ UNCHANGED <<open, handset, modal, hasUpdated, changedOpen, display, modalActive,
                 locked, runs, emitted>>
  /\ UNCHANGED <<engineVars, dispatchVars, parseVars>>

\* The update of the element: @watch('open') calls onOpenChange when the value
\* of open differs from the one before the update.
Update(defaultPrevented) ==
  /\ changedOpen # Absent
  /\ IF changedOpen # BoolStr(open)
     THEN onOpenChange(defaultPrevented)
     ELSE UNCHANGED <<display, modalActive, locked, runs, emitted>>
  /\ hasUpdated' = TRUE
  /\ changedOpen' = Absent
  /\ UNCHANGED <<open, handset, modal, contained>>
  /\ UNCHANGED <<engineVars, dispatchVars, parseVars>>

\* await Promise.all([stopAnimations(...), stopAnimations(this.panel)]) has resolved.
AfterStopAnimations(i) ==
  /\ i \in 1..Len(runs)
  /\ runs[i].pc = "stopAnimations"
  /\ runs' = [runs EXCEPT ![i].pc = "animateTo"]
  /\ UNCHANGED <<open, handset, modal, contained, hasUpdated, changedOpen, display,
                 modalActive, locked, emitted>>
  /\ UNCHANGED <<engineVars, dispatchVars, parseVars>>

\* The opening animations have resolved: emit 'opened'.
Opened(i) ==
  /\ i \in 1..Len(runs)
  /\ runs[i].pc = "animateTo"
  /\ runs[i].kind = "open"
  /\ emitted' = Append(emitted, Event("opened", runs[i].request, FALSE))
  /\ runs' = RemoveAt(runs, i)
  /\ UNCHANGED <<open, handset, modal, contained, hasUpdated, changedOpen, display,
                 modalActive, locked>>
  /\ UNCHANGED <<engineVars, dispatchVars, parseVars>>

\* The closing animations have resolved: hide, unlock, emit 'closed'.
Closed(i) ==
  /\ i \in 1..Len(runs)
  /\ runs[i].pc = "animateTo"
  /\ runs[i].kind = "close"
  /\ display' = "none"
  /\ locked' = IF isModal THEN unlockScreen(locked, lockTarget) ELSE locked
  /\ emitted' = Append(emitted, Event("closed", runs[i].request, FALSE))
  /\ runs' = RemoveAt(runs, i)
  /\ UNCHANGED <<open, handset, modal, contained, hasUpdated, changedOpen, modalActive>>
  /\ UNCHANGED <<engineVars, dispatchVars, parseVars>>

NextDrawer ==
  \/ \E value \in BOOLEAN : SetOpen(value)
  \/ \E value \in BOOLEAN : setHandset(value)
  \/ \E value \in BOOLEAN : SetModal(value)
  \/ \E value \in BOOLEAN : SetContained(value)
  \/ \E defaultPrevented \in BOOLEAN : Update(defaultPrevented)
  \/ \E i \in 1..MaxRequests : AfterStopAnimations(i)
  \/ \E i \in 1..MaxRequests : Opened(i)
  \/ \E i \in 1..MaxRequests : Closed(i)

SpecDrawer == Init /\ [][NextDrawer]_vars

\* A step that carries out part of an opening: shows the drawer, activates the
\* modal helper or takes a screen lock.
OpeningStep ==
  \/ display' \in {"block", "contents"} /\ display' # display
  \/ modalActive' /\ ~ modalActive
  \/ ~ (locked' \subseteq locked)

\* A step that carries out part of a closing: hides the drawer, deactivates the
\* modal helper or releases a screen lock.
ClosingStep ==
  \/ display' = "none" /\ display # "none"
  \/ modalActive /\ ~ modalActive'
  \/ ~ (locked \subseteq locked')

\* The log holds the request event of that type and call, not default-prevented,
\* before position k.
Proceeded(log, type, request, k) ==
  \E j \in 1..(k-1) : log[j] = Event(type, request, FALSE)

\* C13: the cancelable 'open' event is emitted before any opening step and the
\* cancelable 'close' event before any closing step; a default-prevented request
\* changes neither the display, nor the modal helper, nor the screen locks, and
\* starts no transition, so that every 'opened' follows a non-prevented 'open'
\* of the same call and every 'closed' a non-prevented 'close', and a prevented
\* request never gets its 'opened' or 'closed'.
C13_PreventedRequestStopsTransition ==
  [][ /\ OpeningStep => emitted' = Append(emitted, Event("open", Requests + 1, FALSE))
      /\ ClosingStep =>
            \/ emitted' = Append(emitted, Event("close", Requests + 1, FALSE))
            \/ \E n \in 1..MaxRequests :
                 /\ emitted' = Append(emitted, Event("closed", n, FALSE))
                 /\ Proceeded(emitted, "close", n, Len(emitted) + 1)
      /\ (Len(emitted') > Len(emitted) /\ emitted'[Len(emitted')].defaultPrevented)
            => UNCHANGED <<display, modalActive, locked, runs>>
      /\ \A k \in 1..Len(emitted') :
            /\ emitted'[k].type = "opened"
                 => Proceeded(emitted', "open", emitted'[k].request, k)
            /\ emitted'[k].type = "closed"
                 => Proceeded(emitted', "close", emitted'[k].request, k)
            /\ emitted'[k].defaultPrevented
                 => ~ \E j \in 1..Len(emitted') :
                        /\ emitted'[j].type \in {"opened", "closed"}
                        /\ emitted'[j].request = emitted'[k].request ]_vars

\* An 'open' request was default-prevented and left the drawer hidden; a later
\* one went through to 'opened'.
C13_Witness ==
  \E i, j, k \in 1..Len(emitted) :
    /\ i < j /\ j < k
    /\ emitted[i].type = "open" /\ emitted[i].defaultPrevented
    /\ emitted[j].type = "open" /\ ~ emitted[j].defaultPrevented
    /\ emitted[k] = Event("opened", emitted[j].request, FALSE)
    /\ display \in {"block", "contents"}

----------------------------------------------------------------------------
(* Handler lists *)

\* C14: after every step each live record sits at the index equal to its
\* slot-index (handlers[r.id] is r) and no two live records of a target share a
\* slot-index; a removal leaves a hole and moves no other record; and a new
\* record goes to a slot beyond every slot used before, so it never takes the
\* slot-index of a live or of a removed record of that target.
C14_SlotIndexIsPosition ==
  [][ \A t \in Targets :
        LET before == HandlersOf(t)
            after == HandlersAfter(t)
        IN /\ \A i \in LiveAfter(t) : after[i].id = i - 1
           /\ \A i, j \in LiveAfter(t) : i # j => after[i].id # after[j].id
           /\ Len(after) >= Len(before)
           /\ \A i \in 1..Len(before) : after[i] = before[i] \/ after[i] = Hole
           /\ \A i \in (Len(before) + 1)..Len(after) :
                 after[i] # Hole /\ after[i].id = i - 1 ]_vars

\* A record added after a removal: the hole is still there and the new record
\* is in the last slot.
C14_Witness ==
  \E t \in Targets :
    /\ lastOp.op = "add" /\ lastOp.element = t
    /\ Len(HandlersOf(t)) = 3
    /\ HandlersOf(t)[1] = Hole
    /\ HandlersOf(t)[2] # Hole /\ HandlersOf(t)[2].id = 1
    /\ HandlersOf(t)[3] # Hole /\ HandlersOf(t)[3].id = 2

\* C15: in every reachable state each live record has its own proxy attached to
\* its target as a native listener for the record's type, attached once, with
\* the capture flag true exactly when the data given to the add call of the
\* record was an object with a truthy useCapture; no proxy belongs to two
\* records, of the same or of different targets.
C15_LiveRecordHasItsListener ==
  /\ \A t \in Targets : \A i \in Live(t) :
        LET r == HandlersOf(t)[i]
            attached == SelectSeq(listeners[t], LAMBDA l : l.callback = r.proxy)
        IN /\ Len(attached) = 1
           /\ attached[1].type = r.type
           /\ attached[1].capture
                = (r.proxy.data.kind = "object" /\ r.proxy.data.useCapture)
  /\ \A t, u \in Targets : \A i \in Live(t), k \in Live(u) :
        (t # u \/ i # k) => HandlersOf(t)[i].proxy # HandlersOf(u)[k].proxy

\* One target holds a live record added with { useCapture: true }, attached as
\* a capturing listener, next to a live record added with a string as data.
C15_Witness ==
  \E t \in Targets : \E i, k \in Live(t) :
    /\ HandlersOf(t)[i].proxy.data = CaptureData
    /\ [type |-> HandlersOf(t)[i].type, callback |-> HandlersOf(t)[i].proxy,
        capture |-> TRUE] \in {listeners[t][j] : j \in 1..Len(listeners[t])}
    /\ HandlersOf(t)[k].proxy.data = StringData
    /\ [type |-> HandlersOf(t)[k].type, callback |-> HandlersOf(t)[k].proxy,
        capture |-> FALSE] \in {listeners[t][j] : j \in 1..Len(listeners[t])}

----------------------------------------------------------------------------
(* Order of delegated invocations *)

\* Position of a node in document order.
DocPosition(n) == CHOOSE i \in 1..Len(DocOrder) : DocOrder[i] = n

\* C16: within one dispatch, the invocations a delegated listener makes on
\* nested matches run in reverse document order: of two elements it invokes
\* the callback on, the one invoked first comes later in the document and lies
\* inside the other (innermost first).
C16_InnermostFirst ==
  \A i, j \in 1..Len(calls) :
    (i < j /\ calls[i].pid = calls[j].pid) =>
      /\ DocPosition(calls[i].elem) > DocPosition(calls[j].elem)
      /\ IsAncestor(calls[j].elem, calls[i].elem)

\* A delegated listener whose selector matches b and x inside b has handled an
\* event on x: invoked on x first, then on b.
C16_Witness ==
  /\ Dispatched
  /\ ev.target = "x"
  /\ \E i, j \in 1..Len(calls) :
       /\ i < j
       /\ calls[i].pid = calls[j].pid
       /\ calls[i].elem = "x"
       /\ calls[j].elem = "b"

----------------------------------------------------------------------------
(* Events of a synthetic trigger, carrying a namespace of several tags *)

TriggerAddCalls ==
  { AddCall("el", click, "f", NoData, Undefined),
    AddCall("el", Str(<<click, TagXB, TagA>>), "f", PlainData, Undefined),
    AddCall("el", Str(<<click, TagD, TagC, TagB, TagA>>), "g", PlainData, Undefined) }

TriggerRemoveCalls == { RemoveCall("el", UndefinedTypes, Undefined, Undefined) }

\* e._ns as a trigger sets it: the namespace of the triggered token, parsed.
TriggerNamespaces ==
  { parse(token).ns : token \in { click, Str(<<click, TagA>>), Str(<<click, TagB, TagA>>),
                                  Str(<<click, TagD, TagB, TagA>>) } }

TriggerAdd == \E c \in TriggerAddCalls : add(c.element, c.types, c.func, c.data, c.selector)

TriggerRemove == \E c \in TriggerRemoveCalls : remove(c.element, c.types, c.func, c.selector)

Trigger == \E ns \in TriggerNamespaces : dispatchEvent("el", "el", click, ns)

NextTrigger ==
  \/ TriggerAdd
  \/ TriggerRemove
  \/ Trigger
  \/ proxyFn
  \/ callFn
  \/ DispatchReturn

SpecTrigger == Init /\ [][NextTrigger]_vars

\* The step in which the browser invokes the next listener of the dispatch.
ProxyStep == ev # NoEvent /\ pending = <<>> /\ queue # <<>> /\ queue' = Tail(queue)

\* C17: a proxy ignores an event (it invokes no callback and attaches no data)
\* exactly when the event carries a namespace and some tag of that namespace is
\* not a tag of the handler's namespace; so an event without namespace reaches
\* every handler of its type, and an event whose tags are all among the
\* handler's tags is delivered, however many tags it has.
C17_IgnoredIffForeignTag ==
  [][ ProxyStep =>
        ( (pending' = <<>> /\ ev' = ev)
          <=> ( ~ FalsyStr(ev.ns) /\ ~ (Tags(ev.ns) \subseteq Tags(Head(queue).ns)) ) ) ]_vars

----------------------------------------------------------------------------
(* Callbacks that call add or remove on their target while they run *)

ReentrantAddCalls ==
  { AddCall("el", click, "f", NoData, Undefined),
    AddCall("el", Str(<<click, TagA>>), "g", CaptureData, Undefined),
    AddCall("el", click, "f", NoData, ".any") }

ReentrantRemoveCalls ==
  { RemoveCall("el", UndefinedTypes, Undefined, Undefined),
    RemoveCall("el", Str(<<click, TagA>>), Undefined, Undefined),
    RemoveCall("el", click, "f", Undefined) }

\* The listeners of the running dispatch still to be invoked: one detached by
\* the step is not invoked any more, one attached by it is not invoked by this
\* dispatch.
StillAttached ==
  SelectSeq(queue, LAMBDA l :
    \E i \in 1..Len(listeners'[ev.currentTarget]) :
      /\ listeners'[ev.currentTarget][i].callback = l
      /\ listeners'[ev.currentTarget][i].type = ev.type)

\* callFn for a callback whose body is one add call on the target.
callFnAdds(c) ==
  /\ pending # <<>>
  /\ SumLen(DOMAIN handlersMap) + TokenCount(c.types) <= MaxHandlers
  /\ Becomes(addResult(State, c.element, c.types, c.func, c.data, c.selector))
  /\ lastOp' = [op |-> "add", element |-> c.element, types |-> c.types, func |-> c.func,
                data |-> c.data, selector |-> c.selector, removed |-> 0]
  /\ returned' = [result |-> Undefined, preventDefault |-> FALSE, stopPropagation |-> FALSE]
  /\ calls' = Append(calls, Head(pending))
  /\ pending' = Tail(pending)
  /\ queue' = StillAttached
  /\ UNCHANGED ev
  /\ UNCHANGED restVars

\* callFn for a callback whose body is one remove call on the target.
callFnRemoves(c) ==
  /\ pending # <<>>
  /\ Becomes(removeResult(State, c.element, c.types, c.func, c.selector))
  /\ lastOp' = [op |-> "remove", element |-> c.element, types |-> c.types, func |-> c.func,
                data |-> NoData, selector |-> c.selector,
                removed |-> Cardinality(Live(c.element)) - Cardinality(LiveAfter(c.element))]
  /\ returned' = [result |-> Undefined, preventDefault |-> FALSE, stopPropagation |-> FALSE]
  /\ calls' = Append(calls, Head(pending))
  /\ pending' = Tail(pending)
  /\ queue' = StillAttached
  /\ UNCHANGED ev
  /\ UNCHANGED restVars

ReentrantAdd == \E c \in ReentrantAddCalls : add(c.element, c.types, c.func, c.data, c.selector)

ReentrantRemove == \E c \in ReentrantRemoveCalls : remove(c.element, c.types, c.func, c.selector)

ReentrantDispatch ==
  \E target \in {"el", "x"}, ns \in DispatchNamespaces : dispatchEvent("el", target, click, ns)

CallFnAdds == \E c \in ReentrantAddCalls : callFnAdds(c)

CallFnRemoves == \E c \in ReentrantRemoveCalls : callFnRemoves(c)

NextReentrant ==
  \/ ReentrantAdd
  \/ ReentrantRemove
  \/ ReentrantDispatch
  \/ proxyFn
  \/ callFn
  \/ CallFnAdds
  \/ CallFnRemoves
  \/ DispatchReturn

SpecReentrant == Init /\ [][NextReentrant]_vars

\* The slots of a target whose records a remove call with these arguments has
\* to visit, found on the list as it is before the call.
RECURSIVE MatchedBefore(_, _, _, _)
MatchedBefore(element, tokens, func, selector) ==
  IF tokens = <<>> THEN {}
  ELSE LET m == getMatchedHandlers(State, element, Head(tokens), func, selector).matched
       IN {m[i].id + 1 : i \in 1..Len(m)}
            \cup MatchedBefore(element, Tail(tokens), func, selector)

\* A step in which a remove call ran, at top level or inside a callback.
RemoveStep == lastOp'.op = "remove" /\ (lastOp' # lastOp \/ handlersMap' # handlersMap)

\* C18: a removal pass, with type tokens or without (full teardown), visits
\* exactly the records that were to be removed when the pass began: the slots
\* it empties are those matched on the list as it was before the first
\* deletion. And after every step, also one in which a callback running during
\* a dispatch calls add or remove on the target, each live record is at its
\* own slot-index and has its proxy attached.
C18_RemovalPassAndReentrancy ==
  [][ /\ RemoveStep =>
            LET t == lastOp'.element
            IN Live(t) \ LiveAfter(t)
                 = IF FalsyStr(lastOp'.types) THEN Live(t)
                   ELSE MatchedBefore(t, Tokens(lastOp'.types), lastOp'.func,
                                      lastOp'.selector)
      /\ \A t \in Targets : \A i \in LiveAfter(t) :
            /\ HandlersAfter(t)[i].id = i - 1
            /\ \E j \in 1..Len(listeners'[t]) :
                 /\ listeners'[t][j].callback = HandlersAfter(t)[i].proxy
                 /\ listeners'[t][j].type = HandlersAfter(t)[i].type ]_vars

\* A dispatch is running; a callback of it removed the record whose proxy had
\* invoked it, and a later callback of the same dispatch added a record.
C18_Witness ==
  /\ ev # NoEvent
  /\ lastOp.op = "add"
  /\ Live("el") # {}
  /\ \E k \in 1..Len(calls) :
       \A j \in 1..Len(listeners["el"]) : listeners["el"][j].callback.pid # calls[k].pid

----------------------------------------------------------------------------
(* Navigation drawer: where the transitions end *)

\* No update is pending and no onOpenChange call is suspended.
Settled == changedOpen = Absent /\ runs = <<>>

\* The drawer is rendered: its inline display is one of the values onOpenChange
\* shows it with (unset, the stylesheet of the component hides it).
Displayed == display \in {"block", "contents"}

\* The 'opened' and 'closed' events emitted so far, in order.
Completions == SelectSeq(emitted, LAMBDA e : e.type \in {"opened", "closed"})

\* C19: whatever the sequence of changes to open, default-prevented requests
\* and changes made during a running transition included, once every pending
\* transition has finished the drawer is displayed exactly when open is true,
\* and the last of 'opened' and 'closed' emitted agrees with open.
C19_SettledDisplayAgreesWithOpen ==
  Settled =>
    /\ Displayed <=> open
    /\ Completions # <<>> =>
         (Completions[Len(Completions)].type = "opened" <=> open)

\* C20: once a close has completed ('closed' is the last event, nothing is
\* pending and open is false), the drawer holds no screen lock on any target
\* and its modal helper is deactivated, also when handset, modal or contained
\* changed between the opening and the close.
C20_CloseReleasesLockAndModal ==
  ( /\ Settled
    /\ ~ open
    /\ emitted # <<>>
    /\ emitted[Len(emitted)].type = "closed" )
  => (locked = {} /\ ~ modalActive)

====
